---- MODULE Spec2Model ----
(***************************************************************************)
(* Model of src/app.py: the lazily memoized SQLAlchemy engine (get_engine) *)
(* and the five Flask handlers that use it.  Path parameters are sequences *)
(* of one-character strings, tables are sets of rows, and a request is a   *)
(* record holding the handler's locals, its position, the database calls   *)
(* it has made and its response.                                           *)
(***************************************************************************)
EXTENDS Integers, Sequences, FiniteSets, Bags, TLC

\* ------------------------------------------------------------- bounds
\* Longest coordinate path segment that is enumerated exhaustively.
MaxLen == 6
\* Most rows a varied table holds.
MaxRows == 3
\* Number of worker threads serving requests at once.
NumThreads == 2

\* ------------------------------------------------------- coordinates
\* Characters the exhaustively enumerated coordinate strings are built from.
Chars == {"1", "-", ".", "_"}

Digits == {"0", "1", "2", "3", "4", "5", "6", "7", "8", "9"}

DigitVal(c) ==
    CASE c = "0" -> 0 [] c = "1" -> 1 [] c = "2" -> 2 [] c = "3" -> 3
      [] c = "4" -> 4 [] c = "5" -> 5 [] c = "6" -> 6 [] c = "7" -> 7
      [] c = "8" -> 8 [] c = "9" -> 9

RECURSIVE Pow10(_)
Pow10(n) == IF n = 0 THEN 1 ELSE 10 * Pow10(n - 1)

\* Numbers are fixed-point integers with FracDigits decimal places.  Of a
\* well-formed string of at most MaxLen characters, four go to the two
\* separators and the two other parts, so no part spells a longer fraction.
FracDigits == MaxLen - 4

Num(n) == n * Pow10(FracDigits)

\* str.split(sep): the segments between separators; "" splits to [""].
RECURSIVE SplitFrom(_, _, _)
SplitFrom(s, sep, cur) ==
    IF s = <<>> THEN <<cur>>
    ELSE IF Head(s) = sep THEN <<cur>> \o SplitFrom(Tail(s), sep, <<>>)
    ELSE SplitFrom(Tail(s), sep, Append(cur, Head(s)))

Split(s, sep) == SplitFrom(s, sep, <<>>)

RECURSIVE DigitsVal(_, _)
DigitsVal(s, acc) ==
    IF s = <<>> THEN acc ELSE DigitsVal(Tail(s), 10 * acc + DigitVal(Head(s)))

Unsigned(s) == IF s /= <<>> /\ Head(s) \in {"+", "-"} THEN Tail(s) ELSE s

DotAt(s) == {i \in 1..Len(s) : s[i] = "."}

\* float(s) accepts: an optional sign, then digits with at most one point
\* and at least one digit.  (Exponents, inf, nan and surrounding blanks
\* need characters no input of the model has.)
FloatOk(s) ==
    LET u == Unsigned(s) IN
    /\ Cardinality(DotAt(u)) <= 1
    /\ \A i \in 1..Len(u) : u[i] \in Digits \cup {"."}
    /\ \E i \in 1..Len(u) : u[i] \in Digits

\* float(s) of an accepted s, as a fixed-point integer.
FloatVal(s) ==
    LET u    == Unsigned(s)
        d    == IF DotAt(u) = {} THEN Len(u) + 1 ELSE CHOOSE i \in DotAt(u) : TRUE
        ip   == SubSeq(u, 1, d - 1)
        fp   == SubSeq(u, d + 1, Len(u))
        mag  == DigitsVal(ip \o fp, 0) * Pow10(FracDigits - Len(fp))
    IN  IF s /= <<>> /\ Head(s) = "-" THEN 0 - mag ELSE mag

\* (mutant) the numeric check of the parts is skipped.
ParseCoords_LenOnly(coords) ==
    LET parts == Split(coords, "_") IN
    IF Len(parts) /= 3 THEN <<>>
    ELSE [i \in 1..3 |-> IF FloatOk(parts[i]) THEN FloatVal(parts[i]) ELSE 0]

\* Lines 58-61 / 107-112: split on "_", require three parts, float() each.
\* The result is <<x, y, z>>, or <<>> when the handler aborts with 400.
ParseCoords(coords) ==
    LET parts == Split(coords, "_") IN
    IF Len(parts) /= 3 THEN <<>>
    ELSE IF \A i \in 1..3 : FloatOk(parts[i])
    THEN <<FloatVal(parts[1]), FloatVal(parts[2]), FloatVal(parts[3])>>
    ELSE <<>>

\* ------------------------------------------------------------ the data
\* Universes the rows of the three relations of schema ns are drawn from.
Studies == {1, 2}
Contrasts == {1, 2}
Terms == {"pain", "touch"}
Titles == {"T1", "T2"}
Ctids == {1, 2}
Points == {<<Num(1), Num(1), Num(1)>>, <<Num(-1), Num(1), Num(1)>>}

AnnotationRows == [study_id : Studies, contrast_id : Contrasts, term : Terms]
MetadataRows == [study_id : Studies, title : Titles]
CoordinateRows == [study_id : Studies, ctid : Ctids, geom : Points]

\* ------------------------------------------------------------- SQL
\* The bag of the projected rows: a projection keeps duplicates.  `select`
\* maps each row of the FROM/WHERE result to the row of its selected columns.
Project(select) ==
    [v \in {select[r] : r \in DOMAIN select} |->
        Cardinality({r \in DOMAIN select : select[r] = v})]

\* SELECT DISTINCT: every row once.
SelectDistinct(bag) == [v \in DOMAIN bag |-> 1]

\* The sequences that list a bag, each row as often as the bag holds it.
Listings(bag) ==
    LET n == IF DOMAIN bag = {} THEN 0 ELSE BagCardinality(bag) IN
    {s \in [1..n -> DOMAIN bag] :
        \A v \in DOMAIN bag : Cardinality({i \in 1..n : s[i] = v}) = bag[v]}

\* (mutant) no ORDER BY: the rows come in any order.
Unordered(bag) == Listings(bag)

\* ORDER BY study_id: the listings whose study_id never decreases (rows of
\* the same study in any order).
OrderByStudyId(bag) ==
    {s \in Listings(bag) :
        \A i, j \in 1..Len(s) : i < j => s[i].study_id <= s[j].study_id}

\* Lines 50, 74: [r["study_id"] for r in rows].
StudyIds(rows) == [i \in 1..Len(rows) |-> rows[i].study_id]

\* Lines 44-50: SELECT DISTINCT study_id FROM ns.annotations_terms
\*              WHERE term = :t ORDER BY study_id
Query_terms_studies(ann, t) ==
    LET from == {r \in ann : r.term = t}
        rows == OrderByStudyId(SelectDistinct(Project(
                    [r \in from |-> [study_id |-> r.study_id]])))
    IN  {StudyIds(s) : s \in rows}

\* WHERE ST_X(geom) = :x AND ST_Y(geom) = :y AND ST_Z(geom) = :z
GeomEquals(geom, p) == geom[1] = p[1] /\ geom[2] = p[2] /\ geom[3] = p[3]

\* Lines 68-74: SELECT DISTINCT study_id FROM ns.coordinates
\*              WHERE (geom equals :x,:y,:z) ORDER BY study_id
Query_locations_studies(coo, p) ==
    LET from == {r \in coo : GeomEquals(r.geom, p)}
        rows == OrderByStudyId(SelectDistinct(Project(
                    [r \in from |-> [study_id |-> r.study_id]])))
    IN  {StudyIds(s) : s \in rows}

\* (mutant) the anti-join is dropped: term B is ignored.
TermJoin_NoAntiJoin(ann, meta, ta, tb) ==
    {j \in ann \X meta : j[2].study_id = j[1].study_id /\ j[1].term = ta}

\* Lines 87-93: annotations_terms a JOIN metadata m ON m.study_id = a.study_id
\*              WHERE a.term = :ta AND NOT EXISTS (b of the same study with term :tb)
TermJoin(ann, meta, ta, tb) ==
    {j \in ann \X meta :
        /\ j[2].study_id = j[1].study_id
        /\ j[1].term = ta
        /\ ~ \E b \in ann : b.study_id = j[1].study_id /\ b.term = tb}

\* Lines 85-99: SELECT DISTINCT a.study_id, m.title ... ORDER BY a.study_id
Query_dissociate_terms(ann, meta, ta, tb) ==
    OrderByStudyId(SelectDistinct(Project(
        [j \in TermJoin(ann, meta, ta, tb) |->
            [study_id |-> j[1].study_id, title |-> j[2].title]])))

\* Lines 121-128: coordinates a JOIN metadata m ON m.study_id = a.study_id
\*              WHERE a.geom equals p1 AND NOT EXISTS (b of the same study at p2)
LocationJoin(coo, meta, p1, p2) ==
    {j \in coo \X meta :
        /\ j[2].study_id = j[1].study_id
        /\ GeomEquals(j[1].geom, p1)
        /\ ~ \E b \in coo : b.study_id = j[1].study_id /\ GeomEquals(b.geom, p2)}

\* Lines 119-138: the rows, each with the first queried triple echoed as coord.
Query_dissociate_locations(coo, meta, p1, p2) ==
    LET rows == OrderByStudyId(SelectDistinct(Project(
                    [j \in LocationJoin(coo, meta, p1, p2) |->
                        [study_id |-> j[1].study_id, title |-> j[2].title]])))
    IN  {[i \in 1..Len(s) |->
            [coord |-> p1, study_id |-> s[i].study_id, title |-> s[i].title]] : s \in rows}

\* Lines 161, 168, 175: the LIMIT of each sample query of /test_db.
CoordinatesSampleLimit == 3
MetadataSampleLimit == 3
AnnotationsTermsSampleLimit == 20

\* SELECT ... LIMIT n: some n rows of the table, or all when it has fewer.
Limit(table, n) ==
    {S \in SUBSET table :
        Cardinality(S) = IF Cardinality(table) < n THEN Cardinality(table) ELSE n}

\* ------------------------------------------------------ configuration
\* os.getenv("DB_URL"): unset (None), empty, or a URL as scheme, "://", rest.
Unset == <<"None">>
LegacyUrl == <<"postgres", "://", "u@db/ns">>
CanonicalUrl == <<"postgresql", "://", "u@db/ns">>
EnvValues == {Unset, <<>>, LegacyUrl, CanonicalUrl}

\* (mutant) only an unset variable counts as missing, not an empty one.
Falsy_NoneOnly(v) == v = Unset

\* Line 15: `not db_url`.
Falsy(v) == v = Unset \/ v = <<>>

\* Lines 18-19: 'postgres://' becomes 'postgresql://'.
NormalizeUrl(u) ==
    IF Len(u) >= 2 /\ u[1] = "postgres" /\ u[2] = "://"
    THEN <<"postgresql", "://">> \o SubSeq(u, 3, Len(u))
    ELSE u

\* Line 8: _engine = None.
NoEngine == [id |-> 0, url |-> <<>>]

\* ------------------------------------------------------------- state
VARIABLES
    DB_URL,             \* the process environment's DB_URL
    _engine,            \* the module global: NoEngine or the memoized handle
    created,            \* how many times create_engine has run
    annotations_terms,  \* ns.annotations_terms
    metadata,           \* ns.metadata
    coordinates,        \* ns.coordinates
    req,                \* per worker thread, the request it is serving
    config_error        \* whether line 16 has raised in this process

vars ==
    <<DB_URL, _engine, created, annotations_terms, metadata, coordinates, req,
      config_error>>

data == <<annotations_terms, metadata, coordinates>>

Threads == 1..NumThreads

QueryEndpoints ==
    {"terms_studies", "locations_studies", "dissociate_terms", "dissociate_locations"}

CoordMessage == "coords must be 'x_y_z', e.g., 0_-52_26"

NoResponse == [status |-> 0, kind |-> "none", body |-> <<>>]

\* A worker with no request, and the locals of a handler just entered.
Fresh(endpoint) ==
    [pc |-> "idle", endpoint |-> endpoint,
     term_a |-> "", term_b |-> "", c1 |-> <<>>, c2 |-> <<>>, p1 |-> <<>>, p2 |-> <<>>,
     k |-> 0, memo |-> FALSE, db_url |-> <<>>, eng |-> NoEngine,
     calls |-> <<>>, failed |-> {}, rows |-> <<>>, payload |-> <<>>,
     resp |-> NoResponse]

Free(t) == req[t].pc = "idle"

\* The state after `app = create_app()`: no engine, every worker idle.
InitWith(envs, datasets) ==
    /\ DB_URL \in envs
    /\ _engine = NoEngine
    /\ created = 0
    /\ \E d \in datasets :
        /\ annotations_terms = d.ann
        /\ metadata = d.meta
        /\ coordinates = d.coo
    /\ req = [t \in Threads |-> Fresh("none")]
    /\ config_error = FALSE

\* The environment of the process is changed from outside.
SetEnv ==
    /\ \E v \in EnvValues : v /= DB_URL /\ DB_URL' = v
    /\ UNCHANGED <<_engine, created, data, req, config_error>>

\* ------------------------------------------------------- responses
\* (mutant) the error body names the exception instead of the fixed text.
ErrorResponse_Cause(r) ==
    [status |-> 500, kind |-> "json_object", body |-> ("error" :> "OperationalError")]

\* Lines 52, 76, 101, 140: jsonify({"error": "db query failed"}), 500.
\* Lines 185-186: the payload so far with "error" added, 500.
ErrorResponse(r) ==
    IF r.endpoint = "test_db"
    THEN [status |-> 500, kind |-> "json_object",
          body |-> ("error" :> "db query failed") @@ r.payload]
    ELSE [status |-> 500, kind |-> "json_object",
          body |-> ("error" :> "db query failed")]

\* An exception raised by call `op` inside the handler's try block; leaving
\* the `with` block on the way closes the connection that was opened.
Raise(r, op, opened) ==
    [r EXCEPT !.pc = "done",
              !.calls = IF opened THEN Append(Append(@, op), "close") ELSE Append(@, op),
              !.failed = @ \cup {op},
              !.resp = ErrorResponse(r)]

\* get_engine raised (line 16).  Lines 41, 65, 82, 116 call it inside the
\* try; line 144 calls it before the try, so the exception leaves test_db
\* and the framework answers with its own 500 page.
GetEngineRaised(r) ==
    IF r.endpoint = "test_db"
    THEN [r EXCEPT !.pc = "done", !.failed = @ \cup {"get_engine"},
                   !.resp = [status |-> 500, kind |-> "unhandled", body |-> "RuntimeError"]]
    ELSE [r EXCEPT !.pc = "done", !.failed = @ \cup {"get_engine"},
                   !.resp = ErrorResponse(r)]

\* get_engine returned handle e: the query handlers go on to connect;
\* test_db first builds its payload (line 145).
GetEngineReturned(r, e) ==
    IF r.endpoint = "test_db"
    THEN [r EXCEPT !.pc = "begin", !.eng = e,
                   !.payload = ("ok" :> FALSE) @@ ("dialect" :> e.url[1])]
    ELSE [r EXCEPT !.pc = "connect", !.eng = e]

\* ------------------------------------------------------ the handlers
Serve(t, r) ==
    /\ req' = [req EXCEPT ![t] = r]
    /\ UNCHANGED <<DB_URL, _engine, created, data, config_error>>

\* The response has been sent: the worker is free for the next request.
Finish(t) ==
    /\ req[t].pc = "done"
    /\ Serve(t, Fresh("none"))

\* Entering get_engine() (lines 41, 65, 82, 116, 144).
CallGetEngine(r) == [r EXCEPT !.pc = "ge_check", !.calls = Append(@, "get_engine")]

\* Lines 38-41: GET /terms/<term>/studies.
Start_terms_studies(t, terms) ==
    /\ Free(t)
    /\ \E term \in terms :
        Serve(t, CallGetEngine([Fresh("terms_studies") EXCEPT !.term_a = term]))

\* Lines 55-65: GET /locations/<coords>/studies; abort(400) unless coords parse.
Start_locations_studies(t, inputs) ==
    /\ Free(t)
    /\ \E coords \in inputs :
        LET r == [Fresh("locations_studies") EXCEPT !.c1 = coords,
                                                     !.p1 = ParseCoords(coords)]
        IN  IF r.p1 = <<>>
            THEN Serve(t, [r EXCEPT !.pc = "done",
                                    !.resp = [status |-> 400, kind |-> "abort",
                                              body |-> CoordMessage]])
            ELSE Serve(t, CallGetEngine(r))

\* Lines 79-82: GET /dissociate/terms/<term_a>/<term_b>.
Start_dissociate_terms(t, terms) ==
    /\ Free(t)
    /\ \E ta \in terms, tb \in terms :
        Serve(t, CallGetEngine([Fresh("dissociate_terms") EXCEPT !.term_a = ta,
                                                                  !.term_b = tb]))

\* Lines 104-116: GET /dissociate/locations/<c1>/<c2>; abort(400) unless both parse.
Start_dissociate_locations(t, inputs) ==
    /\ Free(t)
    /\ \E cc \in inputs :
        LET r == [Fresh("dissociate_locations") EXCEPT !.c1 = cc[1], !.c2 = cc[2],
                                                        !.p1 = ParseCoords(cc[1]),
                                                        !.p2 = ParseCoords(cc[2])]
        IN  IF r.p1 = <<>> \/ r.p2 = <<>>
            THEN Serve(t, [r EXCEPT !.pc = "done",
                                    !.resp = [status |-> 400, kind |-> "abort",
                                              body |-> CoordMessage]])
            ELSE Serve(t, CallGetEngine(r))

\* Lines 142-144: GET /test_db.
Start_test_db(t) ==
    /\ Free(t)
    /\ Serve(t, CallGetEngine(Fresh("test_db")))

\* --------------------------------------------------------- get_engine
\* (mutant) the memoized handle is not looked at.
GE_Check_NoMemo(t) ==
    /\ req[t].pc = "ge_check"
    /\ Serve(t, [req[t] EXCEPT !.memo = FALSE, !.pc = "ge_getenv"])

\* Line 12: if _engine is not None.
GE_Check(t) ==
    /\ req[t].pc = "ge_check"
    /\ Serve(t, [req[t] EXCEPT !.memo = (_engine /= NoEngine),
                               !.pc = IF _engine /= NoEngine THEN "ge_memo" ELSE "ge_getenv"])

\* Line 13: return _engine.
GE_ReturnMemo(t) ==
    /\ req[t].pc = "ge_memo"
    /\ Serve(t, GetEngineReturned(req[t], _engine))

\* Lines 14-19: read DB_URL, raise when it is missing, normalize the scheme.
GE_GetEnv(t) ==
    /\ req[t].pc = "ge_getenv"
    /\ LET r == [req[t] EXCEPT !.calls = Append(@, "os.getenv")] IN
       IF Falsy(DB_URL)
       THEN /\ req' = [req EXCEPT ![t] = GetEngineRaised(r)]
            /\ config_error' = TRUE
       ELSE /\ req' = [req EXCEPT ![t] = [r EXCEPT !.db_url = NormalizeUrl(DB_URL),
                                                   !.pc = "ge_create"]]
            /\ UNCHANGED config_error
    /\ UNCHANGED <<DB_URL, _engine, created, data>>

\* Lines 20-23: create_engine(db_url, pool_pre_ping=True), then the store
\* into the global.
GE_Create(t) ==
    /\ req[t].pc = "ge_create"
    /\ created' = created + 1
    /\ req' = [req EXCEPT ![t] = [@ EXCEPT !.calls = Append(@, "create_engine"),
                                          !.eng = [id |-> created + 1, url |-> req[t].db_url],
                                          !.pc = "ge_store"]]
    /\ UNCHANGED <<DB_URL, _engine, data, config_error>>

GE_Store(t) ==
    /\ req[t].pc = "ge_store"
    /\ _engine' = req[t].eng
    /\ req' = [req EXCEPT ![t].pc = "ge_return"]
    /\ UNCHANGED <<DB_URL, created, data, config_error>>

\* Line 24: return _engine.
GE_Return(t) ==
    /\ req[t].pc = "ge_return"
    /\ Serve(t, GetEngineReturned(req[t], _engine))

\* ---------------------------------------------------- database steps
\* Lines 42, 66, 83, 117: eng.connect(); line 148: eng.begin().
Connect(t) ==
    /\ req[t].pc \in {"connect", "begin"}
    /\ \E ok \in BOOLEAN :
        IF ok
        THEN Serve(t, [req[t] EXCEPT !.calls = Append(@, req[t].pc), !.pc = "set_path"])
        ELSE Serve(t, Raise(req[t], req[t].pc, FALSE))

\* (mutant) a failed SET search_path is swallowed and the handler goes on.
SetSearchPath_Continue(t) ==
    /\ req[t].pc = "set_path"
    /\ \E ok \in BOOLEAN :
        Serve(t, [req[t] EXCEPT !.calls = Append(@, "set_path"),
                                !.failed = IF ok THEN @ ELSE @ \cup {"set_path"},
                                !.pc = IF req[t].endpoint = "test_db"
                                       THEN "version" ELSE "main"])

\* Lines 43, 67, 84, 118, 150: SET search_path TO ns, public.
SetSearchPath(t) ==
    /\ req[t].pc = "set_path"
    /\ \E ok \in BOOLEAN :
        IF ok
        THEN Serve(t, [req[t] EXCEPT !.calls = Append(@, "set_path"),
                                     !.pc = IF req[t].endpoint = "test_db"
                                            THEN "version" ELSE "main"])
        ELSE Serve(t, Raise(req[t], "set_path", TRUE))

\* The result sets the main statement of a query handler may return.
MainResult(r) ==
    CASE r.endpoint = "terms_studies" ->
            Query_terms_studies(annotations_terms, r.term_a)
      [] r.endpoint = "locations_studies" ->
            Query_locations_studies(coordinates, r.p1)
      [] r.endpoint = "dissociate_terms" ->
            Query_dissociate_terms(annotations_terms, metadata, r.term_a, r.term_b)
      [] r.endpoint = "dissociate_locations" ->
            Query_dissociate_locations(coordinates, metadata, r.p1, r.p2)

\* Lines 44-49, 68-73, 85-95, 119-133: the main statement.
ExecuteMain(t) ==
    /\ req[t].pc = "main"
    /\ \E ok \in BOOLEAN :
        IF ok
        THEN \E rows \in MainResult(req[t]) :
                Serve(t, [req[t] EXCEPT !.calls = Append(@, "main"),
                                        !.rows = rows, !.pc = "exit"])
        ELSE Serve(t, Raise(req[t], "main", TRUE))

\* Leaving the `with` block closes the connection; lines 50, 74, 96-99,
\* 134-138 then return the rows as a JSON array.
ExitAndRespond(t) ==
    /\ req[t].pc = "exit"
    /\ \E ok \in BOOLEAN :
        IF ok
        THEN Serve(t, [req[t] EXCEPT !.calls = Append(@, "close"), !.pc = "done",
                                     !.resp = [status |-> 200, kind |-> "json_array",
                                               body |-> req[t].rows]])
        ELSE Serve(t, Raise(req[t], "close", FALSE))

\* ------------------------------------------------------------ test_db
\* The three relations in the order lines 154-156 and 159-179 visit them:
\* coordinates, metadata, annotations_terms.
TableOf(k) ==
    CASE k = 1 -> coordinates [] k = 2 -> metadata [] k = 3 -> annotations_terms

CountKey(k) ==
    CASE k = 1 -> "coordinates_count" [] k = 2 -> "metadata_count"
      [] k = 3 -> "annotations_terms_count"

SampleKey(k) ==
    CASE k = 1 -> "coordinates_sample" [] k = 2 -> "metadata_sample"
      [] k = 3 -> "annotations_terms_sample"

SampleLimit(k) ==
    CASE k = 1 -> CoordinatesSampleLimit [] k = 2 -> MetadataSampleLimit
      [] k = 3 -> AnnotationsTermsSampleLimit

\* Line 151: SELECT version().
TestDb_Version(t) ==
    /\ req[t].pc = "version"
    /\ \E ok \in BOOLEAN :
        IF ok
        THEN Serve(t, [req[t] EXCEPT !.calls = Append(@, "version"),
                                     !.payload = ("version" :> "PostgreSQL") @@ @,
                                     !.pc = "count", !.k = 1])
        ELSE Serve(t, Raise(req[t], "version", TRUE))

\* Lines 154-156: SELECT COUNT(*) of each relation in turn.
TestDb_Count(t) ==
    /\ req[t].pc = "count"
    /\ LET k == req[t].k IN
       \E ok \in BOOLEAN :
        IF ok
        THEN Serve(t, [req[t] EXCEPT !.calls = Append(@, CountKey(k)),
                                     !.payload = (CountKey(k) :> Cardinality(TableOf(k))) @@ @,
                                     !.pc = IF k = 3 THEN "sample" ELSE "count",
                                     !.k = IF k = 3 THEN 1 ELSE k + 1])
        ELSE Serve(t, Raise(req[t], CountKey(k), TRUE))

\* (mutant) a sample query that fails is not caught: it ends the request.
SampleFailed_Propagate(r, k) == Raise(r, SampleKey(k), TRUE)

\* Lines 164-165, 170-171, 178-179: a failed sample becomes an empty list
\* and the handler goes on.
SampleFailed(r, k) ==
    [r EXCEPT !.calls = Append(@, SampleKey(k)),
              !.failed = @ \cup {SampleKey(k)},
              !.payload = (SampleKey(k) :> {}) @@ @,
              !.pc = IF k = 3 THEN "commit" ELSE "sample",
              !.k = IF k = 3 THEN 0 ELSE k + 1]

\* Lines 159-179: the sample of each relation in turn (its rows, in the
\* order the database happens to return them, kept as a set).
TestDb_Sample(t) ==
    /\ req[t].pc = "sample"
    /\ LET k == req[t].k IN
       \E ok \in BOOLEAN :
        IF ok
        THEN \E rows \in Limit(TableOf(k), SampleLimit(k)) :
                Serve(t, [req[t] EXCEPT !.calls = Append(@, SampleKey(k)),
                                        !.payload = (SampleKey(k) :> rows) @@ @,
                                        !.pc = IF k = 3 THEN "commit" ELSE "sample",
                                        !.k = IF k = 3 THEN 0 ELSE k + 1])
        ELSE Serve(t, SampleFailed(req[t], k))

\* Leaving `with eng.begin()` commits; lines 181-182 then answer 200.
TestDb_Commit(t) ==
    /\ req[t].pc = "commit"
    /\ \E ok \in BOOLEAN :
        IF ok
        THEN Serve(t, [req[t] EXCEPT
                        !.calls = Append(Append(@, "commit"), "close"),
                        !.payload = ("ok" :> TRUE) @@ @,
                        !.pc = "done",
                        !.resp = [status |-> 200, kind |-> "json_object",
                                  body |-> ("ok" :> TRUE) @@ req[t].payload]])
        ELSE Serve(t, Raise(req[t], "commit", TRUE))

\* ------------------------------------------------------ specifications
\* The steps every request takes after it has been dispatched.
GetEngineStep(t) ==
    \/ GE_Check(t)
    \/ GE_ReturnMemo(t)
    \/ GE_GetEnv(t)
    \/ GE_Create(t)
    \/ GE_Store(t)
    \/ GE_Return(t)

QueryStep(t) ==
    \/ Connect(t)
    \/ SetSearchPath(t)
    \/ ExecuteMain(t)
    \/ ExitAndRespond(t)

TestDbStep(t) ==
    \/ TestDb_Version(t)
    \/ TestDb_Count(t)
    \/ TestDb_Sample(t)
    \/ TestDb_Commit(t)

\* Some coordinate strings, well formed and not.
C111 == <<"1", "_", "1", "_", "1">>
Cm111 == <<"-", "1", "_", "1", "_", "1">>
C1d11 == <<"1", ".", "_", "1", "_", "1">>
Ca11 == <<"a", "_", "1", "_", "1">>
C11 == <<"1", "_", "1">>
SomeCoords == {C111, Cm111, C1d11, Ca11, C11}

\* One small data set.
Ann1 == {[study_id |-> 2, contrast_id |-> 1, term |-> "pain"],
         [study_id |-> 1, contrast_id |-> 1, term |-> "pain"],
         [study_id |-> 1, contrast_id |-> 2, term |-> "touch"]}
Meta1 == {[study_id |-> 1, title |-> "T1"], [study_id |-> 2, title |-> "T2"]}
Coo1 == {[study_id |-> 2, ctid |-> 1, geom |-> <<Num(1), Num(1), Num(1)>>],
         [study_id |-> 1, ctid |-> 1, geom |-> <<Num(1), Num(1), Num(1)>>],
         [study_id |-> 1, ctid |-> 2, geom |-> <<Num(-1), Num(1), Num(1)>>]}
Data1 == [ann |-> Ann1, meta |-> Meta1, coo |-> Coo1]

\* One worker serving requests one after another, with any configuration,
\* which may change, and any database step free to fail.
Init == InitWith(EnvValues, {Data1})

Next ==
    \/ SetEnv
    \/ Start_terms_studies(1, Terms)
    \/ Start_locations_studies(1, SomeCoords)
    \/ Start_dissociate_terms(1, Terms)
    \/ Start_dissociate_locations(1, SomeCoords \X SomeCoords)
    \/ Start_test_db(1)
    \/ Finish(1)
    \/ GetEngineStep(1)
    \/ QueryStep(1)
    \/ TestDbStep(1)

Spec == Init /\ [][Next]_vars

\* Every coordinate string of at most MaxLen characters over Chars, and the
\* strings above (one of them with a letter).
AllStrings == UNION {[1..n -> Chars] : n \in 0..MaxLen} \cup SomeCoords

\* The coordinate handlers on every such string, under a present or a
\* missing configuration.  /dissociate/locations gets every string in one
\* place beside a well-formed one in the other, and two malformed ones.
InitParse == InitWith({Unset, LegacyUrl}, {Data1})

NextParse ==
    \/ Start_locations_studies(1, AllStrings)
    \/ Start_dissociate_locations(1, (AllStrings \X {C111}) \cup ({C111} \X AllStrings)
                                       \cup {<<Ca11, C11>>})
    \/ Finish(1)
    \/ GetEngineStep(1)
    \/ QueryStep(1)

SpecParse == InitParse /\ [][NextParse]_vars

\* The four query handlers over every small data set: the annotations and
\* the metadata vary, or the coordinates and the metadata do.
Small(rows) == {S \in SUBSET rows : Cardinality(S) <= MaxRows}

DataSets ==
    [ann : Small(AnnotationRows), meta : Small(MetadataRows), coo : {Coo1}]
    \cup [ann : {Ann1}, meta : Small(MetadataRows), coo : Small(CoordinateRows)]

InitData == InitWith({LegacyUrl}, DataSets)

NextData ==
    \/ Start_terms_studies(1, Terms)
    \/ Start_locations_studies(1, {C111, Cm111})
    \/ Start_dissociate_terms(1, Terms)
    \/ Start_dissociate_locations(1, {C111, Cm111} \X {C111, Cm111})
    \/ Finish(1)
    \/ GetEngineStep(1)
    \/ QueryStep(1)

SpecData == InitData /\ [][NextData]_vars

\* NumThreads workers serving requests at the same time; their steps
\* interleave in any order.
InitThreads == InitWith({Unset, LegacyUrl}, {Data1})

NextThreads ==
    \E t \in Threads :
        \/ Start_terms_studies(t, {"pain"})
        \/ Start_locations_studies(t, {C111})
        \/ Start_test_db(t)
        \/ Finish(t)
        \/ GetEngineStep(t)
        \/ QueryStep(t)
        \/ TestDbStep(t)

SpecThreads == InitThreads /\ [][NextThreads]_vars

\* ============================================================ claims
Elems(seq) == {seq[i] : i \in DOMAIN seq}

CoordEndpoints == {"locations_studies", "dissociate_locations"}

\* s is three number strings joined by exactly two underscores.
ThreeNumbers(s) ==
    \E i, j \in 1..Len(s) :
        /\ i < j
        /\ {n \in 1..Len(s) : s[n] = "_"} = {i, j}
        /\ FloatOk(SubSeq(s, 1, i - 1))
        /\ FloatOk(SubSeq(s, i + 1, j - 1))
        /\ FloatOk(SubSeq(s, j + 1, Len(s)))

Malformed(r) ==
    \/ ~ThreeNumbers(r.c1)
    \/ r.endpoint = "dissociate_locations" /\ ~ThreeNumbers(r.c2)

\* C1: a coordinate request with a malformed coordinate (either one, for
\* /dissociate/locations) is answered 400 without a call to get_engine, a
\* connection or a statement, whatever the configuration.
C1_MalformedCoordsRejected ==
    \A t \in Threads :
        LET r == req[t] IN
        (r.endpoint \in CoordEndpoints /\ Malformed(r)) =>
            /\ r.pc = "done"
            /\ r.resp.status = 400
            /\ r.resp.kind = "abort"
            /\ r.calls = <<>>

C1_Witness ==
    \E t \in Threads :
        /\ req[t].pc = "done"
        /\ req[t].endpoint = "dissociate_locations"
        /\ ThreeNumbers(req[t].c1)
        /\ ~ThreeNumbers(req[t].c2)
        /\ Len(Split(req[t].c2, "_")) = 3
        /\ req[t].resp.status = 400
        /\ DB_URL = Unset

ValidQuery(r) ==
    /\ r.pc = "done"
    /\ r.endpoint \in QueryEndpoints
    /\ r.endpoint \in CoordEndpoints => ~Malformed(r)

\* C2: a query handler with valid input whose database work fails at any
\* step answers 500 with exactly {"error": "db query failed"}; otherwise it
\* answers 200 with a complete result array.
C2_DbFailureIsGeneric500 ==
    \A t \in Threads :
        LET r == req[t] IN
        ValidQuery(r) =>
            IF r.failed /= {}
            THEN /\ r.resp.status = 500
                 /\ r.resp.kind = "json_object"
                 /\ DOMAIN r.resp.body = {"error"}
                 /\ r.resp.body["error"] = "db query failed"
            ELSE /\ r.resp.status = 200
                 /\ r.resp.kind = "json_array"
                 /\ r.resp.body \in MainResult(r)

C2_Witness ==
    \E t \in Threads :
        /\ ValidQuery(req[t])
        /\ req[t].endpoint = "dissociate_locations"
        /\ "main" \in req[t].failed
        /\ req[t].resp.status = 500

HoldsHandle(r) ==
    /\ r.pc \in {"connect", "begin", "set_path", "main", "exit", "version", "count",
                 "sample", "commit", "done"}
    /\ r.eng /= NoEngine

\* C3: with a connection string present, create_engine runs at most once
\* and every caller of get_engine receives the same handle, in every
\* interleaving of concurrent first calls.
C3_EngineConstructedOnce ==
    /\ created <= 1
    /\ \A t1, t2 \in Threads :
        HoldsHandle(req[t1]) /\ HoldsHandle(req[t2]) => req[t1].eng = req[t2].eng

Ok200(r, endpoint) ==
    /\ r.pc = "done"
    /\ r.endpoint = endpoint
    /\ r.resp.status = 200

\* C4: a successful /dissociate/terms/A/B returns exactly the distinct
\* (study_id, title) pairs of the studies that have term A, a metadata row
\* giving the title and no row with term B, in ascending study_id order.
C4_DissociateTermsAntiJoin ==
    \A t \in Threads :
        LET r == req[t]
            b == r.resp.body
        IN  Ok200(r, "dissociate_terms") =>
            /\ Elems(b) =
                {[study_id |-> m.study_id, title |-> m.title] : m \in
                    {m \in metadata :
                        /\ \E a \in annotations_terms :
                                a.study_id = m.study_id /\ a.term = r.term_a
                        /\ \A a \in annotations_terms :
                                a.study_id = m.study_id => a.term /= r.term_b}}
            /\ Cardinality(Elems(b)) = Len(b)
            /\ \A i, j \in 1..Len(b) : i < j => b[i].study_id <= b[j].study_id
            /\ r.term_a = r.term_b => b = <<>>

C4_Witness ==
    \E t \in Threads :
        /\ Ok200(req[t], "dissociate_terms")
        /\ Len(req[t].resp.body) = 1
        /\ \E a \in annotations_terms : a.term = req[t].term_b
        /\ Cardinality({a.study_id : a \in {x \in annotations_terms :
                                                x.term = req[t].term_a}}) = 2

\* C5: a successful studies-by-term or studies-by-coordinate request returns
\* the identifiers of exactly the studies with a matching row, each once,
\* in ascending order.
C5_StudiesSortedDistinctExact ==
    \A t \in Threads :
        LET r == req[t]
            b == r.resp.body
        IN  /\ Ok200(r, "terms_studies") =>
                /\ Elems(b) = {a.study_id : a \in {x \in annotations_terms :
                                                        x.term = r.term_a}}
                /\ \A i, j \in 1..Len(b) : i < j => b[i] < b[j]
            /\ Ok200(r, "locations_studies") =>
                /\ Elems(b) = {c.study_id : c \in {x \in coordinates :
                                                        x.geom = r.p1}}
                /\ \A i, j \in 1..Len(b) : i < j => b[i] < b[j]

C5_Witness ==
    \E t \in Threads :
        /\ Ok200(req[t], "locations_studies")
        /\ req[t].resp.body = <<1, 2>>
        /\ Cardinality(coordinates) = 3

\* C6: every response of /test_db is a JSON payload with an `ok` boolean,
\* 200 exactly when ok and 500 exactly when not, in every configuration.
C6_TestDbAlwaysDiagnostics ==
    \A t \in Threads :
        LET r == req[t] IN
        (r.pc = "done" /\ r.endpoint = "test_db") =>
            /\ r.resp.kind = "json_object"
            /\ "ok" \in DOMAIN r.resp.body
            /\ r.resp.status = 200 <=> r.resp.body["ok"]
            /\ r.resp.status = 500 <=> ~r.resp.body["ok"]
            /\ ~r.resp.body["ok"] => "error" \in DOMAIN r.resp.body

CoreSucceeded(r) ==
    /\ r.pc = "done"
    /\ r.endpoint = "test_db"
    /\ {"version", CountKey(1), CountKey(2), CountKey(3)} \subseteq Elems(r.calls)
    /\ {"version", CountKey(1), CountKey(2), CountKey(3)} \cap r.failed = {}

SamplesIsolated(r) ==
    \A k \in 1..3 :
        /\ SampleKey(k) \in Elems(r.calls)
        /\ SampleKey(k) \in DOMAIN r.resp.body
        /\ IF SampleKey(k) \in r.failed
           THEN r.resp.body[SampleKey(k)] = {}
           ELSE r.resp.body[SampleKey(k)] \in Limit(TableOf(k), SampleLimit(k))

\* C7 as stated: once the version and the counts have succeeded, a failed
\* sample empties only its own field and the response is 200 with ok=true.
C7_SampleFailureStill200 ==
    \A t \in Threads :
        LET r == req[t] IN
        CoreSucceeded(r) =>
            /\ SamplesIsolated(r)
            /\ r.resp.status = 200
            /\ r.resp.body["ok"]

\* C7 amended: once the version and the counts have succeeded, all three
\* samples are attempted, a failed one empties only its own field, and the
\* response is 200 with ok=true provided the closing commit succeeds (500
\* with ok=false when it does not).
C7_SampleFailureIsolated ==
    \A t \in Threads :
        LET r == req[t] IN
        CoreSucceeded(r) =>
            /\ SamplesIsolated(r)
            /\ r.failed \subseteq {SampleKey(1), SampleKey(2), SampleKey(3), "commit"}
            /\ IF "commit" \in r.failed
               THEN r.resp.status = 500 /\ ~r.resp.body["ok"]
               ELSE r.resp.status = 200 /\ r.resp.body["ok"]

C7_Witness ==
    \E t \in Threads :
        /\ CoreSucceeded(req[t])
        /\ req[t].failed = {"metadata_sample"}
        /\ req[t].resp.status = 200
        /\ req[t].resp.body["coordinates_sample"] /= {}
        /\ req[t].resp.body["metadata_sample"] = {}
        /\ req[t].resp.body["annotations_terms_sample"] /= {}

\* C8: while no handle is memoized, a get_engine call that finds no
\* connection string raises, constructs nothing and leaves the handle
\* unset; one that finds a connection string goes on to construct the
\* handle, also after earlier calls have failed.
C8_MissingConfigFails ==
    [][\A t \in Threads :
        (req[t].pc = "ge_getenv" /\ req'[t] /= req[t]) =>
            IF DB_URL \in {Unset, <<>>}
            THEN /\ req'[t].pc = "done"
                 /\ "get_engine" \in req'[t].failed
                 /\ req'[t].resp.status = 500
                 /\ "create_engine" \notin Elems(req'[t].calls)
                 /\ created' = created
                 /\ _engine = NoEngine /\ _engine' = NoEngine
            ELSE /\ req'[t].pc = "ge_create"
                 /\ req'[t].db_url = <<"postgresql", "://", DB_URL[3]>>]_vars

C8_Witness ==
    /\ config_error
    /\ created = 1
    /\ _engine = [id |-> 1, url |-> CanonicalUrl]
    /\ \E t \in Threads : req[t].pc = "ge_return"

\* C9: with requests served one after another, once a handle is memoized it
\* is never replaced, no engine is constructed again, and every later
\* get_engine call returns it without reading the configuration, whatever
\* DB_URL has become.
C9_MemoizedHandleReused ==
    [][_engine /= NoEngine =>
        /\ _engine' = _engine
        /\ created' = created
        /\ \A t \in Threads :
            req'[t] /= req[t] =>
                /\ req[t].pc \notin {"ge_getenv", "ge_create", "ge_store"}
                /\ req[t].pc = "ge_check" => req'[t].pc = "ge_memo"
                /\ req[t].pc \in {"ge_memo", "ge_return"} =>
                        req'[t].eng = _engine /\ req'[t].pc \in {"connect", "begin"}]_vars

C9_Witness ==
    \E t \in Threads :
        /\ req[t].pc = "begin"
        /\ req[t].memo
        /\ req[t].eng = _engine
        /\ _engine /= NoEngine
        /\ DB_URL = Unset
        /\ config_error

IsDbCall(op) == op \notin {"get_engine", "os.getenv", "create_engine"}

\* C10: in every request the connection is acquired at most once, SET
\* search_path is the first statement on it, no other statement is issued
\* unless it succeeded, and nothing is attempted twice.
C10_SchemaFirstNoRetry ==
    \A t \in Threads :
        LET c == req[t].calls
            d == SelectSeq(c, IsDbCall)
        IN  /\ \A i, j \in 1..Len(c) : i /= j => c[i] /= c[j]
            /\ Len(d) >= 1 => d[1] \in {"connect", "begin"}
            /\ Len(d) >= 2 => d[1] \notin req[t].failed /\ d[2] = "set_path"
            /\ Len(d) >= 3 /\ d[3] /= "close" => "set_path" \notin req[t].failed

C10_Witness ==
    \E t \in Threads :
        /\ req[t].pc = "done"
        /\ req[t].endpoint = "test_db"
        /\ req[t].failed = {"set_path"}
        /\ SelectSeq(req[t].calls, IsDbCall) = <<"begin", "set_path", "close">>

====
